---- MODULE Spec2Model ----
(***************************************************************************)
(* A model of gonymizer's processors (processors.go): the processor        *)
(* functions, the three global consistency maps, the character-class       *)
(* scrambler and the date randomizer.                                      *)
(*                                                                         *)
(* Go strings are sequences of bytes (naturals 0..255, ASCII codes); a Go  *)
(* map is a function with a finite DOMAIN.  A processor is an operator     *)
(* giving the SET of outcomes one call can have (one per result of the     *)
(* random source); an action takes one of them.                            *)
(***************************************************************************)
EXTENDS Integers, Sequences, FiniteSets, TLC

VARIABLES
    AlphaNumericMap,  \* parentKey -> (raw -> scrambled)       (processors.go:52)
    UUIDMap,          \* uuid.UUID -> uuid.UUID                (processors.go:57)
    IBANMap,          \* raw -> anonymized                     (processors.go:60)
    status,           \* "running", or "panicked" once a call aborted the process
    last,             \* the call that ended last: processor, arguments, results
    calls,            \* every call of a consistency-preserving processor so far
    ncalls,           \* number of calls made
    gs                \* the goroutines of a parallel driver: where each is in its call

vars == <<AlphaNumericMap, UUIDMap, IBANMap, status, last, calls, ncalls, gs>>

-----------------------------------------------------------------------------
(* Bounds of the model.                                                    *)

\* Calls made in one run of the sequential specification.
MaxCalls == 3

\* A bounded random source draws, of the n results of rand.Intn(n), the
\* first MaxDraw and the last one.
MaxDraw == 1

\* Length of the strings the scrambler is applied to on its own.
MaxLen == 2

\* Goroutines of the parallel driver.
NumGoroutines == 2

-----------------------------------------------------------------------------
(* Go maps.                                                                *)

EmptyMap == [k \in {} |-> <<>>]

\* len(m)
MapLen(m) == Cardinality(DOMAIN m)

\* m[k] = v
Put(m, k, v) == [x \in (DOMAIN m) \cup {k} |-> IF x = k THEN v ELSE m[x]]

\* m[k] of a map of strings: the zero value "" for a missing key
GetStr(m, k) == IF k \in DOMAIN m THEN m[k] ELSE <<>>

\* m[k] of a map of maps: the nil map for a missing key
GetMap(m, k) == IF k \in DOMAIN m THEN m[k] ELSE EmptyMap

-----------------------------------------------------------------------------
(* The random source and the character-class scrambler.                    *)

lowercaseSetLen == 26
uppercaseSetLen == 26
numericSetLen == 10

\* "abcdefghijklmnopqrstuvwxyz"
lowercaseSet == [i \in 1..26 |-> 96 + i]
\* "ABCDEFGHIJKLMNOPQRSTUVWXYZ"
uppercaseSet == [i \in 1..26 |-> 64 + i]
\* "0123456789"
numericSet == [i \in 1..10 |-> 47 + i]

\* The results rand.Intn(n) can have: 0..n-1 (none for n = 0: it panics).
\* With full = FALSE the source is bounded by MaxDraw.
Intn(n, full) ==
    IF full THEN 0 .. (n - 1)
    ELSE {r \in 0 .. (n - 1) : r < MaxDraw \/ r = n - 1}

\* lowercaseSet[rand.Intn(lowercaseSetLen)]; Go indexes from 0
randomLowercase(full) == {lowercaseSet[r + 1] : r \in Intn(lowercaseSetLen, full)}

randomUppercase(full) == {uppercaseSet[r + 1] : r \in Intn(uppercaseSetLen, full)}

randomNumeric_AsLowercase(full) == {lowercaseSet[r + 1] : r \in Intn(numericSetLen, full)}

randomNumeric(full) == {numericSet[r + 1] : r \in Intn(numericSetLen, full)}

\* What scrambleString's loop body writes for byte c.
scrambleByte(c, full) ==
    CASE c >= 97 /\ c <= 122 -> randomLowercase(full)
      [] c >= 65 /\ c <= 90  -> randomUppercase(full)
      [] c >= 48 /\ c <= 57  -> randomNumeric(full)
      [] OTHER               -> {c}

\* The strings scrambleString(input) can return: the builder after the loop
\* has run over input[0..n-1].
RECURSIVE scrambleLoop(_, _, _)
scrambleLoop(input, n, full) ==
    IF n = 0 THEN {<<>>}
    ELSE {b \o <<w>> : b \in scrambleLoop(input, n - 1, full),
                       w \in scrambleByte(input[n], full)}

scrambleString(input, full) == scrambleLoop(input, Len(input), full)

-----------------------------------------------------------------------------
(* Column metadata: the fields of ColumnMapper the processors read.        *)

Cmap(s, t, c) == [ParentSchema |-> s, ParentTable |-> t, ParentColumn |-> c]

\* ("public", "users", "ssn") shortened to ("s", "t", "c")
cmapPlain == Cmap(<<115>>, <<116>>, <<99>>)
\* ("a.b", "c", "d") and ("a", "b.c", "d"): identifiers holding a dot
cmapDotSchema == Cmap(<<97, 46, 98>>, <<99>>, <<100>>)
cmapDotTable == Cmap(<<97>>, <<98, 46, 99>>, <<100>>)
\* no parent linkage, and a parent linkage lacking its table
cmapNone == Cmap(<<>>, <<>>, <<>>)
cmapNoTable == Cmap(<<115>>, <<>>, <<99>>)

ColumnMappers == {cmapPlain, cmapDotSchema, cmapDotTable, cmapNoTable}

\* the metadata passed to the processors that do not read it
OtherMappers == {cmapPlain, cmapNone}

\* cmap.ParentSchema != "" && cmap.ParentTable != "" && cmap.ParentColumn != ""
HasParent(cmap) ==
    cmap.ParentSchema # <<>> /\ cmap.ParentTable # <<>> /\ cmap.ParentColumn # <<>>

\* fmt.Sprintf("%s.%s.%s", cmap.ParentSchema, cmap.ParentTable, cmap.ParentColumn)
parentKey(cmap) ==
    cmap.ParentSchema \o <<46>> \o cmap.ParentTable \o <<46>> \o cmap.ParentColumn

-----------------------------------------------------------------------------
(* Outcomes of a call: the returned pair, whether the call panicked, and   *)
(* the maps as the call leaves them.                                       *)

Outcome(out, err, panicked, memo, amap, umap, imap) ==
    [out |-> out, err |-> err, panicked |-> panicked, memo |-> memo,
     amap |-> amap, umap |-> umap, imap |-> imap]

\* a call that returns (out, err) and reads and writes no map
Returns(out, err) == Outcome(out, err, FALSE, "none", AlphaNumericMap, UUIDMap, IBANMap)

\* a call that returns the value a map holds
Hit(out) == Outcome(out, "nil", FALSE, "hit", AlphaNumericMap, UUIDMap, IBANMap)

\* a call that panics
Panics == Outcome(<<>>, "nil", TRUE, "none", AlphaNumericMap, UUIDMap, IBANMap)

-----------------------------------------------------------------------------
(* ProcessorAlphaNumericScrambler                                          *)

alphaPartition_AlwaysNew(key) == Put(AlphaNumericMap, key, EmptyMap)

\* AlphaNumericMap after "if len(AlphaNumericMap[parentKey]) < 1 { ... }"
alphaPartition(key) ==
    IF MapLen(GetMap(AlphaNumericMap, key)) < 1
    THEN Put(AlphaNumericMap, key, EmptyMap)
    ELSE AlphaNumericMap

ProcessorAlphaNumericScrambler_Overwrite(cmap, input, full) ==
    LET key == parentKey(cmap)
        m1 == alphaPartition(key)
    IN  IF HasParent(cmap)
        THEN {Outcome(scramble, "nil", FALSE, "miss",
                      Put(m1, key, Put(m1[key], input, scramble)),
                      UUIDMap, IBANMap) :
                 scramble \in scrambleString(input, full)}
        ELSE {Returns(scramble, "nil") : scramble \in scrambleString(input, full)}

ProcessorAlphaNumericScrambler(cmap, input, full) ==
    LET key == parentKey(cmap)
        m1 == alphaPartition(key)
    IN  IF HasParent(cmap)
        THEN IF Len(GetStr(m1[key], input)) < 1
             THEN {Outcome(scramble, "nil", FALSE, "miss",
                           Put(m1, key, Put(m1[key], input, scramble)),
                           UUIDMap, IBANMap) :
                      scramble \in scrambleString(input, full)}
             ELSE {Outcome(m1[key][input], "nil", FALSE, "hit", m1, UUIDMap, IBANMap)}
        ELSE {Returns(scramble, "nil") : scramble \in scrambleString(input, full)}

-----------------------------------------------------------------------------
(* ProcessorIBANScrambler                                                  *)

ProcessorIBANScrambler_ScrambleAll(cmap, input, full) ==
    IF input \in DOMAIN IBANMap
    THEN {Hit(IBANMap[input])}
    ELSE IF Len(input) < 2
    THEN {Panics}
    ELSE {Outcome(all, "nil", FALSE, "miss", AlphaNumericMap, UUIDMap,
                  Put(IBANMap, input, all)) :
             all \in scrambleString(input, full)}

\* input[:2] and input[2:] panic (slice bounds out of range) when len(input) < 2
ProcessorIBANScrambler(cmap, input, full) ==
    IF input \in DOMAIN IBANMap
    THEN {Hit(IBANMap[input])}
    ELSE IF Len(input) < 2
    THEN {Panics}
    ELSE {Outcome(SubSeq(input, 1, 2) \o rest, "nil", FALSE, "miss",
                  AlphaNumericMap, UUIDMap,
                  Put(IBANMap, input, SubSeq(input, 1, 2) \o rest)) :
             rest \in scrambleString(SubSeq(input, 3, Len(input)), full)}

-----------------------------------------------------------------------------
(* github.com/google/uuid as ProcessorRandomUUID uses it: a UUID is 16     *)
(* bytes, Parse reads its text forms, String writes the canonical one.     *)

\* the value of a hexadecimal digit, 255 for any other byte
xvalue(c) ==
    CASE c >= 48 /\ c <= 57  -> c - 48
      [] c >= 97 /\ c <= 102 -> c - 87
      [] c >= 65 /\ c <= 70  -> c - 55
      [] OTHER               -> 255

\* "0123456789abcdef"[n]
hexDigit(n) == IF n < 10 THEN 48 + n ELSE 87 + n

\* strings.ToLower of an ASCII byte
lowerByte(c) == IF c >= 65 /\ c <= 90 THEN c + 32 ELSE c

\* "urn:uuid:"
urnPrefix == <<117, 114, 110, 58, 117, 117, 105, 100, 58>>

\* where the 16 bytes start in xxxxxxxx-xxxx-xxxx-xxxx-xxxxxxxxxxxx (from 0)
uuidOffsets == <<0, 2, 4, 6, 9, 11, 14, 16, 19, 21, 24, 26, 28, 30, 32, 34>>

\* uuid.Parse(s): [ok, id]; ok = FALSE is the error return
uuidParseAt(s, offsets, dashes) ==
    IF /\ \A d \in dashes : s[d + 1] = 45
       /\ \A i \in 1..16 : /\ xvalue(s[offsets[i] + 1]) # 255
                           /\ xvalue(s[offsets[i] + 2]) # 255
    THEN [ok |-> TRUE,
          id |-> [i \in 1..16 |-> 16 * xvalue(s[offsets[i] + 1])
                                      + xvalue(s[offsets[i] + 2])]]
    ELSE [ok |-> FALSE, id |-> [i \in 1..16 |-> 0]]

uuidParse(s) ==
    CASE Len(s) = 36 -> uuidParseAt(s, uuidOffsets, {8, 13, 18, 23})
      [] Len(s) = 45 ->
            IF [i \in 1..9 |-> lowerByte(s[i])] = urnPrefix
            THEN uuidParseAt(SubSeq(s, 10, 45), uuidOffsets, {8, 13, 18, 23})
            ELSE [ok |-> FALSE, id |-> [i \in 1..16 |-> 0]]
      [] Len(s) = 38 -> uuidParseAt(SubSeq(s, 2, 38), uuidOffsets, {8, 13, 18, 23})
      [] Len(s) = 32 -> uuidParseAt(s, [i \in 1..16 |-> 2 * (i - 1)], {})
      [] OTHER -> [ok |-> FALSE, id |-> [i \in 1..16 |-> 0]]

\* UUID.String(): lower-case hexadecimal, dashes after bytes 4, 6, 8 and 10
uuidHex(id, from, to) ==
    [k \in 1 .. 2 * (to - from + 1) |->
        IF k % 2 = 1 THEN hexDigit(id[from + (k - 1) \div 2] \div 16)
        ELSE hexDigit(id[from + (k - 1) \div 2] % 16)]

uuidString(id) ==
    uuidHex(id, 1, 4) \o <<45>> \o uuidHex(id, 5, 6) \o <<45>> \o uuidHex(id, 7, 8)
        \o <<45>> \o uuidHex(id, 9, 10) \o <<45>> \o uuidHex(id, 11, 16)

\* uuid.NewRandom(): 16 random bytes with the version 4 and variant bits set,
\* or the random reader's error.  The bounded source fills every byte but the
\* last with 0.
uuidNewRandom(full) ==
    {[ok |-> TRUE,
      id |-> [i \in 1..16 |-> CASE i = 7  -> 64
                                 [] i = 9  -> 128
                                 [] i = 16 -> r
                                 [] OTHER  -> 0]] : r \in Intn(256, full)}
    \cup {[ok |-> FALSE, id |-> [i \in 1..16 |-> 0]]}

-----------------------------------------------------------------------------
(* ProcessorRandomUUID and randomizeUUID                                   *)

randomizeUUID_Regenerate(input, full) ==
    {IF new.ok
     THEN Outcome(uuidString(new.id), "nil", FALSE, "miss",
                  AlphaNumericMap, Put(UUIDMap, input, new.id), IBANMap)
     ELSE Outcome(<<>>, "rand", FALSE, "miss", AlphaNumericMap, UUIDMap, IBANMap) :
        new \in uuidNewRandom(full)}

randomizeUUID_StoreFirst(input, full) ==
    IF input \notin DOMAIN UUIDMap
    THEN {Outcome(IF new.ok THEN uuidString(new.id) ELSE <<>>,
                  IF new.ok THEN "nil" ELSE "rand", FALSE, "miss",
                  AlphaNumericMap, Put(UUIDMap, input, new.id), IBANMap) :
             new \in uuidNewRandom(full)}
    ELSE {Hit(uuidString(UUIDMap[input]))}

\* randomizeUUID(input): a failure of uuid.NewRandom returns ("", err) before
\* the map is written
randomizeUUID(input, full) ==
    IF input \notin DOMAIN UUIDMap
    THEN {IF new.ok
          THEN Outcome(uuidString(new.id), "nil", FALSE, "miss",
                       AlphaNumericMap, Put(UUIDMap, input, new.id), IBANMap)
          ELSE Outcome(<<>>, "rand", FALSE, "miss", AlphaNumericMap, UUIDMap, IBANMap) :
             new \in uuidNewRandom(full)}
    ELSE {Hit(uuidString(UUIDMap[input]))}

ProcessorRandomUUID_Silent(cmap, input, full) ==
    IF ~uuidParse(input).ok
    THEN {Returns(<<>>, "nil")}
    ELSE randomizeUUID(uuidParse(input).id, full)

ProcessorRandomUUID(cmap, input, full) ==
    IF ~uuidParse(input).ok
    THEN {Returns(<<>>, "parse")}
    ELSE randomizeUUID(uuidParse(input).id, full)

-----------------------------------------------------------------------------
(* package time as randomizeDate uses it: time.Date normalizes a day (or a *)
(* month) out of range into the date it denotes, Day reads the day of the  *)
(* month back and Format("2006-01-02") writes the date.                    *)

isLeap(year) == year % 4 = 0 /\ (year % 100 # 0 \/ year % 400 = 0)

\* daysBefore[m]: days of a non-leap year before the first of month m + 1
daysBeforeTable == <<0, 31, 59, 90, 120, 151, 181, 212, 243, 273, 304, 334, 365>>

\* days of year before the first of month (month in 1..13)
daysBefore(month, year) ==
    daysBeforeTable[month] + (IF isLeap(year) /\ month >= 3 THEN 1 ELSE 0)

\* days before January 1 of year, counted from January 1 of year 1
daysSinceEpoch(year) ==
    365 * (year - 1) + ((year - 1) \div 4) - ((year - 1) \div 100) + ((year - 1) \div 400)

\* the month of day yday (from 0) of year, and the day of that month
civilMonth(year, yday) ==
    CHOOSE m \in 1..12 : daysBefore(m, year) <= yday /\ yday < daysBefore(m + 1, year)

civilDay(year, yday, month) ==
    [year |-> year, month |-> month, day |-> yday - daysBefore(month, year) + 1]

civilYear(abs, year) ==
    civilDay(year, abs - daysSinceEpoch(year), civilMonth(year, abs - daysSinceEpoch(year)))

\* the date whose day number (from January 1 of year 1) is abs, a day of the
\* years near..near+2
civil(abs, near) ==
    civilYear(abs, CHOOSE c \in near .. (near + 2) :
                       daysSinceEpoch(c) <= abs /\ abs < daysSinceEpoch(c + 1))

\* date(year, month, day): time.Date(year, time.Month(month), day, 0, 0, 0, 0, time.UTC)
date(year, month, day) ==
    LET y == year + ((month - 1) \div 12)
        m == ((month - 1) % 12) + 1
    IN  civil(daysSinceEpoch(y) + daysBefore(m, y) + day - 1, y - 1)

\* n in decimal, zero-padded to width digits
fmtInt(n, width) == [i \in 1..width |-> 48 + ((n \div (10 ^ (width - i))) % 10)]

fmtYear(year) ==
    IF year < 0 THEN <<45>> \o fmtInt(-year, IF -year < 10000 THEN 4 ELSE 5)
    ELSE fmtInt(year, IF year < 10000 THEN 4 ELSE 5)

\* t.Format("2006-01-02")
formatDate(t) ==
    fmtYear(t.year) \o <<45>> \o fmtInt(t.month, 2) \o <<45>> \o fmtInt(t.day, 2)

\* monthMaxDay := date(year, randMonth, 0).Day()
monthMaxDay(year, randMonth) == date(year, randMonth, 0).day

randomizeDate_ThirteenMonths(year, full) ==
    UNION {{formatDate(date(year, randMonth, d + 1)) :
               d \in Intn(date(year, randMonth, 0).day, full)} :
           randMonth \in {m + 1 : m \in Intn(13, full)}}

\* randomizeDate(year): the strings it can return, one for each randMonth
\* and randDay the source can draw
randomizeDate(year, full) ==
    UNION {{formatDate(date(year, randMonth, d + 1)) :
               d \in Intn(date(year, randMonth, 0).day, full)} :
           randMonth \in {m + 1 : m \in Intn(12, full)}}

-----------------------------------------------------------------------------
(* ProcessorRandomDate                                                     *)

RECURSIVE splitLoop(_, _, _)
\* strings.Split(s, sep) for a one-byte sep: cur is the component being read
splitLoop(s, sep, cur) ==
    IF s = <<>> THEN <<cur>>
    ELSE IF Head(s) = sep THEN <<cur>> \o splitLoop(Tail(s), sep, <<>>)
    ELSE splitLoop(Tail(s), sep, Append(cur, Head(s)))

Split(s, sep) == splitLoop(s, sep, <<>>)

RECURSIVE digitsValue(_)
digitsValue(s) ==
    IF s = <<>> THEN 0 ELSE 10 * digitsValue(SubSeq(s, 1, Len(s) - 1)) + (s[Len(s)] - 48)

\* strconv.Atoi(s): [ok, n]; an optional sign, then one or more digits
Atoi(s) ==
    LET signed == s # <<>> /\ s[1] \in {43, 45}
        digits == IF signed THEN Tail(s) ELSE s
    IN  IF digits # <<>> /\ \A i \in 1..Len(digits) : digits[i] >= 48 /\ digits[i] <= 57
        THEN [ok |-> TRUE,
              n |-> IF signed /\ s[1] = 45 THEN -digitsValue(digits) ELSE digitsValue(digits)]
        ELSE [ok |-> FALSE, n |-> 0]

ProcessorRandomDate_AtLeastThree(cmap, input, full) ==
    LET dateSplit == Split(input, 45)
    IN  IF Len(dateSplit) < 3
        THEN {Returns(<<>>, "format")}
        ELSE IF ~Atoi(dateSplit[1]).ok
        THEN {Returns(<<>>, "year")}
        ELSE {Returns(d, "nil") : d \in randomizeDate(Atoi(dateSplit[1]).n, full)}

\* ProcessorRandomDate(cmap, input): "format" is the error "Date format is
\* not ISO-8601", "year" the error "Unable to parse year from date"
ProcessorRandomDate(cmap, input, full) ==
    LET dateSplit == Split(input, 45)
    IN  IF Len(dateSplit) < 3 \/ Len(dateSplit) > 3
        THEN {Returns(<<>>, "format")}
        ELSE IF ~Atoi(dateSplit[1]).ok
        THEN {Returns(<<>>, "year")}
        ELSE {Returns(d, "nil") : d \in randomizeDate(Atoi(dateSplit[1]).n, full)}

-----------------------------------------------------------------------------
(* The processors that keep no consistency map.                            *)

\* the Code fields of the embedded country-code dataset, in its order
CountryCodes ==
    <<
      <<65, 70>>, <<65, 88>>, <<65, 76>>, <<68, 90>>, <<65, 83>>, <<65, 68>>,
      <<65, 79>>, <<65, 73>>, <<65, 81>>, <<65, 71>>, <<65, 82>>, <<65, 77>>,
      <<65, 87>>, <<65, 85>>, <<65, 84>>, <<65, 90>>, <<66, 83>>, <<66, 72>>,
      <<66, 68>>, <<66, 66>>, <<66, 89>>, <<66, 69>>, <<66, 90>>, <<66, 74>>,
      <<66, 77>>, <<66, 84>>, <<66, 79>>, <<66, 81>>, <<66, 65>>, <<66, 87>>,
      <<66, 86>>, <<66, 82>>, <<73, 79>>, <<66, 78>>, <<66, 71>>, <<66, 70>>,
      <<66, 73>>, <<75, 72>>, <<67, 77>>, <<67, 65>>, <<67, 86>>, <<75, 89>>,
      <<67, 70>>, <<84, 68>>, <<67, 76>>, <<67, 78>>, <<67, 88>>, <<67, 67>>,
      <<67, 79>>, <<75, 77>>, <<67, 71>>, <<67, 68>>, <<67, 75>>, <<67, 82>>,
      <<67, 73>>, <<72, 82>>, <<67, 85>>, <<67, 87>>, <<67, 89>>, <<67, 90>>,
      <<68, 75>>, <<68, 74>>, <<68, 77>>, <<68, 79>>, <<69, 67>>, <<69, 71>>,
      <<83, 86>>, <<71, 81>>, <<69, 82>>, <<69, 69>>, <<69, 84>>, <<70, 75>>,
      <<70, 79>>, <<70, 74>>, <<70, 73>>, <<70, 82>>, <<71, 70>>, <<80, 70>>,
      <<84, 70>>, <<71, 65>>, <<71, 77>>, <<71, 69>>, <<68, 69>>, <<71, 72>>,
      <<71, 73>>, <<71, 82>>, <<71, 76>>, <<71, 68>>, <<71, 80>>, <<71, 85>>,
      <<71, 84>>, <<71, 71>>, <<71, 78>>, <<71, 87>>, <<71, 89>>, <<72, 84>>,
      <<72, 77>>, <<86, 65>>, <<72, 78>>, <<72, 75>>, <<72, 85>>, <<73, 83>>,
      <<73, 78>>, <<73, 68>>, <<73, 82>>, <<73, 81>>, <<73, 69>>, <<73, 77>>,
      <<73, 76>>, <<73, 84>>, <<74, 77>>, <<74, 80>>, <<74, 69>>, <<74, 79>>,
      <<75, 90>>, <<75, 69>>, <<75, 73>>, <<75, 80>>, <<75, 82>>, <<75, 87>>,
      <<75, 71>>, <<76, 65>>, <<76, 86>>, <<76, 66>>, <<76, 83>>, <<76, 82>>,
      <<76, 89>>, <<76, 73>>, <<76, 84>>, <<76, 85>>, <<77, 79>>, <<77, 75>>,
      <<77, 71>>, <<77, 87>>, <<77, 89>>, <<77, 86>>, <<77, 76>>, <<77, 84>>,
      <<77, 72>>, <<77, 81>>, <<77, 82>>, <<77, 85>>, <<89, 84>>, <<77, 88>>,
      <<70, 77>>, <<77, 68>>, <<77, 67>>, <<77, 78>>, <<77, 69>>, <<77, 83>>,
      <<77, 65>>, <<77, 90>>, <<77, 77>>, <<78, 65>>, <<78, 82>>, <<78, 80>>,
      <<78, 76>>, <<78, 67>>, <<78, 90>>, <<78, 73>>, <<78, 69>>, <<78, 71>>,
      <<78, 85>>, <<78, 70>>, <<77, 80>>, <<78, 79>>, <<79, 77>>, <<80, 75>>,
      <<80, 87>>, <<80, 83>>, <<80, 65>>, <<80, 71>>, <<80, 89>>, <<80, 69>>,
      <<80, 72>>, <<80, 78>>, <<80, 76>>, <<80, 84>>, <<80, 82>>, <<81, 65>>,
      <<82, 69>>, <<82, 79>>, <<82, 85>>, <<82, 87>>, <<66, 76>>, <<83, 72>>,
      <<75, 78>>, <<76, 67>>, <<77, 70>>, <<80, 77>>, <<86, 67>>, <<87, 83>>,
      <<83, 77>>, <<83, 84>>, <<83, 65>>, <<83, 78>>, <<82, 83>>, <<83, 67>>,
      <<83, 76>>, <<83, 71>>, <<83, 88>>, <<83, 75>>, <<83, 73>>, <<83, 66>>,
      <<83, 79>>, <<90, 65>>, <<71, 83>>, <<83, 83>>, <<69, 83>>, <<76, 75>>,
      <<83, 68>>, <<83, 82>>, <<83, 74>>, <<83, 90>>, <<83, 69>>, <<67, 72>>,
      <<83, 89>>, <<84, 87>>, <<84, 74>>, <<84, 90>>, <<84, 72>>, <<84, 76>>,
      <<84, 71>>, <<84, 75>>, <<84, 79>>, <<84, 84>>, <<84, 78>>, <<84, 82>>,
      <<84, 77>>, <<84, 67>>, <<84, 86>>, <<85, 71>>, <<85, 65>>, <<65, 69>>,
      <<71, 66>>, <<85, 83>>, <<85, 77>>, <<85, 89>>, <<85, 90>>, <<86, 85>>,
      <<86, 69>>, <<86, 78>>, <<86, 71>>, <<86, 73>>, <<87, 70>>, <<69, 72>>,
      <<89, 69>>, <<90, 77>>, <<90, 87>>
    >>

\* CountryCodes[rand.Int63n(int64(len(CountryCodes)))].Code
ProcessorRandomCountryCode(cmap, input, full) ==
    {Returns(CountryCodes[r + 1], "nil") : r \in Intn(Len(CountryCodes), full)}

ProcessorIdentity(cmap, input, full) == {Returns(input, "nil")}

\* "{}"
ProcessorEmptyJson(cmap, input, full) == {Returns(<<123, 125>>, "nil")}

\* "TRUE" when rand.Intn(2) == 0, else "FALSE"
ProcessorRandomBoolean(cmap, input, full) ==
    {Returns(IF r = 0 THEN <<84, 82, 85, 69>> ELSE <<70, 65, 76, 83, 69>>, "nil") :
        r \in Intn(2, full)}

\* The width in bytes of the UTF-8 sequence at the head of s; a byte that
\* starts no well-formed sequence counts as one rune of width 1.
runeWidth(s) ==
    LET cont(i) == Len(s) >= i /\ s[i] >= 128 /\ s[i] <= 191
    IN  CASE s[1] >= 194 /\ s[1] <= 223 /\ cont(2) -> 2
          [] s[1] >= 224 /\ s[1] <= 239 /\ cont(2) /\ cont(3) -> 3
          [] s[1] >= 240 /\ s[1] <= 244 /\ cont(2) /\ cont(3) /\ cont(4) -> 4
          [] OTHER -> 1

RECURSIVE RuneCountInString(_)
RuneCountInString(s) ==
    IF s = <<>> THEN 0
    ELSE 1 + RuneCountInString(SubSeq(s, runeWidth(s) + 1, Len(s)))

\* strings.Repeat("*", utf8.RuneCountInString(input))
scrubString(input) == [i \in 1..RuneCountInString(input) |-> 42]

ProcessorScrubString(cmap, input, full) == {Returns(scrubString(input), "nil")}

\* fake.DigitsN(len(input)): len(input) random digits
ProcessorRandomDigits(cmap, input, full) ==
    {Returns(d, "nil") : d \in scrambleLoop([i \in 1..Len(input) |-> 48], Len(input), full)}

\* What the fake library returns for a category (fake.City(), fake.Phone(),
\* ...) is outside this package: one of a few opaque values.
FakeValues == {<<102, 49>>, <<102, 50>>}

\* ProcessorAddress, ProcessorCity, ProcessorCompanyName, ProcessorEmailAddress,
\* ProcessorFirstName, ProcessorFullName, ProcessorIPv4, ProcessorLastName,
\* ProcessorPhoneNumber, ProcessorState, ProcessorStateAbbrev,
\* ProcessorUserName, ProcessorZip: each returns fake.X(), nil
ProcessorFake(cmap, input, full) == {Returns(v, "nil") : v \in FakeValues}

-----------------------------------------------------------------------------
(* The values the row driver passes in.                                    *)

\* "", "a-"
RawValues == {<<>>, <<97, 45>>}

\* "", "D", "DE", "DE1"
IBANInputs == {<<>>, <<68>>, <<68, 69>>, <<68, 69, 49>>}

\* the UUID whose bytes are 0 but the last
uuidOf(b) == [i \in 1..16 |-> IF i = 16 THEN b ELSE 0]

\* 00000000-0000-0000-0000-00000000000a, "", and a text of 36 bytes that
\* starts with "g"
UUIDInputs ==
    {uuidString(uuidOf(10)),
     <<>>,
     [i \in 1..36 |-> IF i = 1 THEN 103 ELSE uuidString(uuidOf(10))[i]]}

\* "2020-08-28", "2020/08/28", "x-08-28"
SomeDates ==
    {<<50, 48, 50, 48, 45, 48, 56, 45, 50, 56>>,
     <<50, 48, 50, 48, 47, 48, 56, 47, 50, 56>>,
     <<120, 45, 48, 56, 45, 50, 56>>}

\* the two bytes of U+00E9
SomeStrings == {<<195, 169>>}

-----------------------------------------------------------------------------
(* The sequential run: the row driver calls one processor after another.   *)

ConsistencyProcessors == {"AlphaNumericScrambler", "RandomUUID", "IBANScrambler"}

NoCall ==
    [proc |-> "none", cmap |-> cmapNone, input |-> <<>>, out |-> <<>>,
     err |-> "nil", panicked |-> FALSE, memo |-> "none", again |-> FALSE]

Idle ==
    [pc |-> "idle", proc |-> "none", cmap |-> cmapNone, input |-> <<>>,
     key |-> <<>>, val |-> <<>>, out |-> <<>>, err |-> "nil"]

Init ==
    /\ AlphaNumericMap = EmptyMap
    /\ UUIDMap = EmptyMap
    /\ IBANMap = EmptyMap
    /\ status = "running"
    /\ last = NoCall
    /\ calls = {}
    /\ ncalls = 0
    /\ gs = [g \in 1..NumGoroutines |-> Idle]

\* The call proc(cmap, input) ends with outcome r.  A panic that nothing
\* recovers ends the process.  The record of the call keeps which branch it
\* took (memo) and whether the same call was made before (again).
Ends(proc, cmap, input, r) ==
    LET call == [proc |-> proc, cmap |-> cmap, input |-> input, out |-> r.out,
                 err |-> r.err, panicked |-> r.panicked, memo |-> r.memo,
                 again |-> \E c \in calls :
                              c.proc = proc /\ c.cmap = cmap /\ c.input = input]
    IN  /\ AlphaNumericMap' = r.amap
        /\ UUIDMap' = r.umap
        /\ IBANMap' = r.imap
        /\ status' = IF r.panicked THEN "panicked" ELSE "running"
        /\ last' = call
        /\ calls' = IF proc \in ConsistencyProcessors THEN calls \cup {call} ELSE calls

\* one more call of a run of at most MaxCalls
Driver ==
    /\ status = "running"
    /\ ncalls < MaxCalls
    /\ ncalls' = ncalls + 1
    /\ UNCHANGED gs

CallAlphaNumericScrambler ==
    /\ Driver
    /\ \E cmap \in ColumnMappers, input \in RawValues :
          \E r \in ProcessorAlphaNumericScrambler(cmap, input, FALSE) :
             Ends("AlphaNumericScrambler", cmap, input, r)

CallIBANScrambler ==
    /\ Driver
    /\ \E cmap \in OtherMappers, input \in IBANInputs :
          \E r \in ProcessorIBANScrambler(cmap, input, FALSE) :
             Ends("IBANScrambler", cmap, input, r)

CallRandomUUID ==
    /\ Driver
    /\ \E cmap \in OtherMappers, input \in UUIDInputs :
          \E r \in ProcessorRandomUUID(cmap, input, FALSE) :
             Ends("RandomUUID", cmap, input, r)

CallRandomDate ==
    /\ Driver
    /\ \E cmap \in {cmapPlain}, input \in SomeDates :
          \E r \in ProcessorRandomDate(cmap, input, FALSE) :
             Ends("RandomDate", cmap, input, r)

CallIdentity ==
    /\ Driver
    /\ \E cmap \in {cmapPlain}, input \in SomeStrings :
          \E r \in ProcessorIdentity(cmap, input, FALSE) :
             Ends("Identity", cmap, input, r)

CallScrubString ==
    /\ Driver
    /\ \E cmap \in {cmapPlain}, input \in SomeStrings :
          \E r \in ProcessorScrubString(cmap, input, FALSE) :
             Ends("ScrubString", cmap, input, r)

CallRandomCountryCode ==
    /\ Driver
    /\ \E cmap \in {cmapPlain}, input \in SomeStrings :
          \E r \in ProcessorRandomCountryCode(cmap, input, FALSE) :
             Ends("RandomCountryCode", cmap, input, r)

CallEmptyJson ==
    /\ Driver
    /\ \E cmap \in {cmapPlain}, input \in SomeStrings :
          \E r \in ProcessorEmptyJson(cmap, input, FALSE) :
             Ends("EmptyJson", cmap, input, r)

CallRandomBoolean ==
    /\ Driver
    /\ \E cmap \in {cmapPlain}, input \in SomeStrings :
          \E r \in ProcessorRandomBoolean(cmap, input, FALSE) :
             Ends("RandomBoolean", cmap, input, r)

CallRandomDigits ==
    /\ Driver
    /\ \E cmap \in {cmapPlain}, input \in SomeStrings :
          \E r \in ProcessorRandomDigits(cmap, input, FALSE) :
             Ends("RandomDigits", cmap, input, r)

CallFake ==
    /\ Driver
    /\ \E cmap \in {cmapPlain}, input \in SomeStrings :
          \E r \in ProcessorFake(cmap, input, FALSE) :
             Ends("Fake", cmap, input, r)

Next ==
    \/ CallAlphaNumericScrambler
    \/ CallIBANScrambler
    \/ CallRandomUUID
    \/ CallRandomDate
    \/ CallIdentity
    \/ CallScrubString
    \/ CallRandomCountryCode
    \/ CallEmptyJson
    \/ CallRandomBoolean
    \/ CallRandomDigits
    \/ CallFake

Spec == Init /\ [][Next]_vars

-----------------------------------------------------------------------------
(* The scrambler on its own: scrambleString applied once to a string of up *)
(* to MaxLen bytes, or AlphaNumericScrambler called again and again on one *)
(* such string under one parent scope, the random source unbounded.        *)

\* "a", "Q", "7", "-" and 0xC3, a byte of a multi-byte character
ScrambleAlphabet == {97, 81, 55, 45, 195}

ScrambleInputs == UNION {[1..n -> ScrambleAlphabet] : n \in 0..MaxLen}

ApplyScrambleString ==
    /\ last = NoCall
    /\ \E input \in ScrambleInputs :
          \E out \in scrambleString(input, TRUE) :
             last' = [NoCall EXCEPT !.proc = "scrambleString",
                                    !.input = input, !.out = out]
    /\ UNCHANGED <<AlphaNumericMap, UUIDMap, IBANMap, status, calls, ncalls, gs>>

ScrambleColumn ==
    /\ Driver
    /\ \E input \in ScrambleInputs :
          /\ last = NoCall \/ (last.proc = "AlphaNumericScrambler" /\ last.input = input)
          /\ \E r \in ProcessorAlphaNumericScrambler(cmapPlain, input, TRUE) :
                Ends("AlphaNumericScrambler", cmapPlain, input, r)

NextScramble == ApplyScrambleString \/ ScrambleColumn

SpecScramble == Init /\ [][NextScramble]_vars

-----------------------------------------------------------------------------
(* The date randomizer on its own: one call of RandomDate, the random      *)
(* source unbounded.                                                       *)

\* "-08-28"
monthAndDay == <<45, 48, 56, 45, 50, 56>>

DateYears == {1, 4, 100, 400, 1900, 1999, 2000, 2019, 2020, 9999}

\* "2020/08/28", "2020-08", "2020-08-28-01", "x-08-28", "", "-5-01-01"
MalformedDates ==
    {<<50, 48, 50, 48, 47, 48, 56, 47, 50, 56>>,
     <<50, 48, 50, 48, 45, 48, 56>>,
     <<50, 48, 50, 48, 45, 48, 56, 45, 50, 56, 45, 48, 49>>,
     <<120, 45, 48, 56, 45, 50, 56>>,
     <<>>,
     <<45, 53, 45, 48, 49, 45, 48, 49>>}

\* "0001-08-28", ..., "9999-08-28", "4-08-28" and the malformed ones
DateInputs ==
    {fmtYear(y) \o monthAndDay : y \in DateYears}
        \cup {<<52>> \o monthAndDay} \cup MalformedDates

RandomizeDates ==
    /\ last = NoCall
    /\ Driver
    /\ \E input \in DateInputs :
          \E r \in ProcessorRandomDate(cmapPlain, input, TRUE) :
             Ends("RandomDate", cmapPlain, input, r)

NextDate == RandomizeDates

SpecDate == Init /\ [][NextDate]_vars

-----------------------------------------------------------------------------
(* The parallel driver: NumGoroutines goroutines, each making one call of  *)
(* a consistency-preserving processor.  The code takes no lock, so a step  *)
(* is one access to a map (the line of processors.go is in the name of the *)
(* step), and goroutines interleave between steps.  A map write that races *)
(* with another goroutine's access to the same map is a data race: the     *)
(* write goes through, or the Go runtime ends the process ("fatal error:   *)
(* concurrent map writes").                                                *)

Goroutines == 1..NumGoroutines

\* goroutine g moves to pc, its record changed as in upd
Goes(g, upd) ==
    /\ gs' = [gs EXCEPT ![g] = upd]
    /\ UNCHANGED <<last, calls, ncalls>>

Done(g, out, err) == [gs[g] EXCEPT !.pc = "done", !.out = out, !.err = err]

At(g, pc) == status = "running" /\ gs[g].pc = pc

GoStart(g) ==
    /\ At(g, "idle")
    /\ \/ \E cmap \in ColumnMappers, input \in RawValues :
             Goes(g, [gs[g] EXCEPT !.proc = "AlphaNumericScrambler", !.cmap = cmap,
                                   !.input = input, !.key = parentKey(cmap),
                                   !.pc = IF HasParent(cmap) THEN "alpha146"
                                          ELSE "alpha157"])
       \/ \E input \in IBANInputs :
             Goes(g, [gs[g] EXCEPT !.proc = "IBANScrambler", !.cmap = cmapPlain,
                                   !.input = input, !.pc = "iban108"])
       \/ \E input \in UUIDInputs :
             Goes(g, [gs[g] EXCEPT !.proc = "RandomUUID", !.cmap = cmapPlain,
                                   !.input = input, !.pc = "uuid277"])
    /\ UNCHANGED <<AlphaNumericMap, UUIDMap, IBANMap, status>>

\* if len(AlphaNumericMap[parentKey]) < 1
Alpha146(g) ==
    /\ At(g, "alpha146")
    /\ Goes(g, [gs[g] EXCEPT !.pc = IF MapLen(GetMap(AlphaNumericMap, gs[g].key)) < 1
                                    THEN "alpha147" ELSE "alpha149"])
    /\ UNCHANGED <<AlphaNumericMap, UUIDMap, IBANMap, status>>

\* AlphaNumericMap[parentKey] = map[string]string{}
Alpha147(g) ==
    /\ At(g, "alpha147")
    /\ AlphaNumericMap' = Put(AlphaNumericMap, gs[g].key, EmptyMap)
    /\ Goes(g, [gs[g] EXCEPT !.pc = "alpha149"])
    /\ UNCHANGED <<UUIDMap, IBANMap, status>>

\* if len(AlphaNumericMap[parentKey][input]) < 1 { scramble = scrambleString(input)
Alpha149(g) ==
    /\ At(g, "alpha149")
    /\ IF Len(GetStr(GetMap(AlphaNumericMap, gs[g].key), gs[g].input)) < 1
       THEN \E scramble \in scrambleString(gs[g].input, FALSE) :
               Goes(g, [gs[g] EXCEPT !.pc = "alpha151", !.val = scramble])
       ELSE Goes(g, [gs[g] EXCEPT !.pc = "alpha154"])
    /\ UNCHANGED <<AlphaNumericMap, UUIDMap, IBANMap, status>>

\* AlphaNumericMap[parentKey][input] = scramble
Alpha151(g) ==
    /\ At(g, "alpha151")
    /\ AlphaNumericMap' =
          Put(AlphaNumericMap, gs[g].key,
              Put(GetMap(AlphaNumericMap, gs[g].key), gs[g].input, gs[g].val))
    /\ Goes(g, Done(g, gs[g].val, "nil"))
    /\ UNCHANGED <<UUIDMap, IBANMap, status>>

\* scramble = AlphaNumericMap[parentKey][input]
Alpha154(g) ==
    /\ At(g, "alpha154")
    /\ Goes(g, Done(g, GetStr(GetMap(AlphaNumericMap, gs[g].key), gs[g].input), "nil"))
    /\ UNCHANGED <<AlphaNumericMap, UUIDMap, IBANMap, status>>

\* scramble = scrambleString(input), no parent linkage
Alpha157(g) ==
    /\ At(g, "alpha157")
    /\ \E scramble \in scrambleString(gs[g].input, FALSE) :
          Goes(g, Done(g, scramble, "nil"))
    /\ UNCHANGED <<AlphaNumericMap, UUIDMap, IBANMap, status>>

\* if annonymizedIBAN, ok := IBANMap[input]; ok { return } and, on a miss,
\* newAnnonymizedIBAN := input[:2] + scrambleString(input[2:])
Iban108(g) ==
    /\ At(g, "iban108")
    /\ IF gs[g].input \in DOMAIN IBANMap
       THEN Goes(g, Done(g, IBANMap[gs[g].input], "nil")) /\ UNCHANGED status
       ELSE IF Len(gs[g].input) < 2
       THEN status' = "panicked" /\ Goes(g, gs[g])
       ELSE /\ \E rest \in scrambleString(SubSeq(gs[g].input, 3, Len(gs[g].input)), FALSE) :
                  Goes(g, [gs[g] EXCEPT !.pc = "iban113",
                                        !.val = SubSeq(gs[g].input, 1, 2) \o rest])
            /\ UNCHANGED status
    /\ UNCHANGED <<AlphaNumericMap, UUIDMap, IBANMap>>

\* IBANMap[input] = newAnnonymizedIBAN
Iban113(g) ==
    /\ At(g, "iban113")
    /\ IBANMap' = Put(IBANMap, gs[g].input, gs[g].val)
    /\ Goes(g, Done(g, gs[g].val, "nil"))
    /\ UNCHANGED <<AlphaNumericMap, UUIDMap, status>>

\* inputID, err := uuid.Parse(input)
Uuid277(g) ==
    /\ At(g, "uuid277")
    /\ IF uuidParse(gs[g].input).ok
       THEN Goes(g, [gs[g] EXCEPT !.pc = "uuid314", !.key = uuidParse(gs[g].input).id])
       ELSE Goes(g, Done(g, <<>>, "parse"))
    /\ UNCHANGED <<AlphaNumericMap, UUIDMap, IBANMap, status>>

\* if _, ok := UUIDMap[input]; !ok { finalUUID, err = uuid.NewRandom()
Uuid314(g) ==
    /\ At(g, "uuid314")
    /\ IF gs[g].key \notin DOMAIN UUIDMap
       THEN \E new \in uuidNewRandom(FALSE) :
               IF new.ok THEN Goes(g, [gs[g] EXCEPT !.pc = "uuid319", !.val = new.id])
               ELSE Goes(g, Done(g, <<>>, "rand"))
       ELSE Goes(g, [gs[g] EXCEPT !.pc = "uuid321"])
    /\ UNCHANGED <<AlphaNumericMap, UUIDMap, IBANMap, status>>

\* UUIDMap[input] = finalUUID
Uuid319(g) ==
    /\ At(g, "uuid319")
    /\ UUIDMap' = Put(UUIDMap, gs[g].key, gs[g].val)
    /\ Goes(g, Done(g, uuidString(gs[g].val), "nil"))
    /\ UNCHANGED <<AlphaNumericMap, IBANMap, status>>

\* finalUUID = UUIDMap[input]
Uuid321(g) ==
    /\ At(g, "uuid321")
    /\ Goes(g, Done(g, uuidString(UUIDMap[gs[g].key]), "nil"))
    /\ UNCHANGED <<AlphaNumericMap, UUIDMap, IBANMap, status>>

\* goroutine g is inside a call that reads or writes the map of proc
InFlight(g) == gs[g].pc \notin {"idle", "done", "alpha157", "uuid277"}

\* g is about to write a map another goroutine is using: the runtime may
\* detect the race and end the process
MapFault(g) ==
    /\ status = "running"
    /\ gs[g].pc \in {"alpha147", "alpha151", "iban113", "uuid319"}
    /\ \E h \in Goroutines \ {g} : InFlight(h) /\ gs[h].proc = gs[g].proc
    /\ status' = "fatal"
    /\ UNCHANGED <<AlphaNumericMap, UUIDMap, IBANMap, last, calls, ncalls, gs>>

NextConc ==
    \E g \in Goroutines :
        \/ GoStart(g)
        \/ Alpha146(g) \/ Alpha147(g) \/ Alpha149(g) \/ Alpha151(g)
        \/ Alpha154(g) \/ Alpha157(g)
        \/ Iban108(g) \/ Iban113(g)
        \/ Uuid277(g) \/ Uuid314(g) \/ Uuid319(g) \/ Uuid321(g)
        \/ MapFault(g)

SpecConc == Init /\ [][NextConc]_vars

-----------------------------------------------------------------------------
(* Vocabulary of the properties.                                           *)

IsLower(c) == c \in 97..122
IsUpper(c) == c \in 65..90
IsDigit(c) == c \in 48..57

\* byte b may stand where byte a stood: same class, or the same byte when a
\* is of no class
SameClass(a, b) ==
    IF IsLower(a) THEN IsLower(b)
    ELSE IF IsUpper(a) THEN IsUpper(b)
    ELSE IF IsDigit(a) THEN IsDigit(b)
    ELSE b = a

ClassPreserving(s, o) ==
    /\ Len(o) = Len(s)
    /\ \A i \in 1..Len(s) : SameClass(s[i], o[i])

\* a parent triple with all three components non-empty
FullScope(cmap) ==
    Len(cmap.ParentSchema) > 0 /\ Len(cmap.ParentTable) > 0 /\ Len(cmap.ParentColumn) > 0

\* every entry of map m is an entry of map n
Kept(m, n) == \A k \in DOMAIN m : k \in DOMAIN n /\ n[k] = m[k]

-----------------------------------------------------------------------------
(* Properties of the sequential run.                                       *)

\* C1: write-once store.  No step removes an entry of the alphanumeric map
\* (scope -> raw -> scrambled), of the UUID map or of the IBAN map, or
\* changes the value an entry is bound to: every entry keeps the value of
\* its first insertion.
C1_WriteOnce ==
    [][/\ \A key \in DOMAIN AlphaNumericMap :
             /\ key \in DOMAIN AlphaNumericMap'
             /\ Kept(AlphaNumericMap[key], AlphaNumericMap'[key])
       /\ Kept(UUIDMap, UUIDMap')
       /\ Kept(IBANMap, IBANMap')]_vars

\* C1 witness: each of the three maps holds an entry, so the entry inserted
\* first has gone through two later calls that inserted into other maps.
C1_Witness ==
    /\ \E key \in DOMAIN AlphaNumericMap : AlphaNumericMap[key] # EmptyMap
    /\ UUIDMap # EmptyMap
    /\ IBANMap # EmptyMap

\* C2: alphanumeric consistency.  Any two calls of AlphaNumericScrambler made
\* so far with the same full parent scope and the same raw value returned
\* the same output, whatever was called in between.
C2_AlphaNumericConsistency ==
    \A c1 \in calls, c2 \in calls :
        (/\ c1.proc = "AlphaNumericScrambler" /\ c2.proc = "AlphaNumericScrambler"
         /\ FullScope(c1.cmap) /\ c1.cmap = c2.cmap /\ c1.input = c2.input)
        => c1.out = c2.out

\* C2 witness: the third call of the run repeats an earlier
\* AlphaNumericScrambler call on "a-" (two outputs possible) under a full
\* scope, the run holding one other call of a consistency-preserving
\* processor.
C2_Witness ==
    /\ ncalls = 3
    /\ last.proc = "AlphaNumericScrambler" /\ FullScope(last.cmap)
    /\ last.input = <<97, 45>> /\ last.again
    /\ Cardinality(calls) = 2

C5_ScopeIsolation ==
    (/\ last.proc = "AlphaNumericScrambler" /\ FullScope(last.cmap)
     /\ ~last.again)
    => last.memo # "hit"

\* C6 as stated: a RandomUUID call on an input that does not parse returns
\* the empty string and a nil error, and leaves the UUID map as it was.
C6_Original ==
    [][(/\ ncalls' = ncalls + 1
        /\ last'.proc = "RandomUUID" /\ ~uuidParse(last'.input).ok)
       => (last'.out = <<>> /\ last'.err = "nil" /\ UUIDMap' = UUIDMap)]_vars

\* C6 amended: a RandomUUID call on an input that does not parse returns the
\* empty string together with the error of the parse (not nil), and leaves
\* the UUID map as it was.
C6_UnparseableUUID ==
    [][(/\ ncalls' = ncalls + 1
        /\ last'.proc = "RandomUUID" /\ ~uuidParse(last'.input).ok)
       => (last'.out = <<>> /\ last'.err = "parse" /\ UUIDMap' = UUIDMap)]_vars

\* C6 witness: a call on the 36-byte text that starts with "g" has returned,
\* the UUID map holding an entry.
C6_Witness ==
    /\ last.proc = "RandomUUID" /\ Len(last.input) = 36 /\ last.input[1] = 103
    /\ last.out = <<>> /\ last.err = "parse"
    /\ UUIDMap # EmptyMap

\* C7 as stated: an IBANScrambler call on an input of length 0 or 1 that is
\* not in the IBAN map ends with a value or an error, not by aborting the
\* process.
C7_ShortIBANHandled ==
    (last.proc = "IBANScrambler" /\ Len(last.input) < 2)
    => (~last.panicked /\ status = "running")

\* C9: IBAN prefix invariance.  Every IBANScrambler call made so far on an
\* input of length >= 2 returned a string of the input's length that starts
\* with the input's first two bytes and goes on with a class-preserving
\* scramble of the rest; every entry k -> v of the IBAN map has v[0:2] = k[0:2].
C9_IBANPrefix ==
    /\ \A c \in calls :
          (c.proc = "IBANScrambler" /\ Len(c.input) >= 2)
          => /\ ~c.panicked /\ c.err = "nil"
             /\ Len(c.out) = Len(c.input)
             /\ SubSeq(c.out, 1, 2) = SubSeq(c.input, 1, 2)
             /\ ClassPreserving(SubSeq(c.input, 3, Len(c.input)),
                                SubSeq(c.out, 3, Len(c.out)))
    /\ \A k \in DOMAIN IBANMap :
          Len(IBANMap[k]) >= 2 /\ SubSeq(IBANMap[k], 1, 2) = SubSeq(k, 1, 2)

\* C9 witness: "DE1" was scrambled, and scrambled again from the map.
C9_Witness ==
    /\ last.proc = "IBANScrambler" /\ last.input = <<68, 69, 49>>
    /\ last.memo = "hit" /\ last.again
    /\ last.out \in {<<68, 69, 48>>, <<68, 69, 57>>}

-----------------------------------------------------------------------------
(* Properties of the scrambler and of the date randomizer.                 *)

\* C8: length and class preservation.  scrambleString(s) has the length of
\* s and at each position a byte of the class of s's byte there (lower-case
\* letter, upper-case letter, digit), or the very byte when it is of no
\* class; so has every value the alphanumeric map holds for, and every
\* value AlphaNumericScrambler returned for, a raw value.
C8_ClassPreservation ==
    /\ last.proc = "scrambleString" => ClassPreserving(last.input, last.out)
    /\ \A key \in DOMAIN AlphaNumericMap :
          \A raw \in DOMAIN AlphaNumericMap[key] :
             ClassPreserving(raw, AlphaNumericMap[key][raw])
    /\ \A c \in calls :
          c.proc = "AlphaNumericScrambler" => ClassPreserving(c.input, c.out)

\* C8 witness: AlphaNumericScrambler returned "Z9" for "Q7" from the map:
\* the last letter and the last digit of the lookup strings.
C8_Witness ==
    /\ last.proc = "AlphaNumericScrambler" /\ last.memo = "hit"
    /\ last.input = <<81, 55>> /\ last.out = <<90, 57>>
    /\ AlphaNumericMap[parentKey(cmapPlain)][<<81, 55>>] = <<90, 57>>

\* C13: frame of the consistency store.  A call that changes one of the
\* three maps returns no error, does not panic, and is one of: an
\* AlphaNumericScrambler call with a full parent triple whose raw value has
\* no entry in its scope's partition, which changes only the entry of that
\* raw value in that partition; a RandomUUID call on a parseable input with
\* no entry, which only adds that entry to the UUID map; an IBANScrambler
\* call on an input with no entry, which only adds that entry to the IBAN
\* map.  So all three maps are unchanged by every call that returns an error
\* or panics, every AlphaNumericScrambler call with an empty parent schema,
\* table or column (whose output is a scramble of its input), every call
\* whose key has an entry, and every call of another processor.
C13_Frame ==
    [][ncalls' = ncalls + 1
       => LET c == last'
              key == parentKey(c.cmap)
              unchanged == /\ AlphaNumericMap' = AlphaNumericMap
                           /\ UUIDMap' = UUIDMap
                           /\ IBANMap' = IBANMap
          IN  /\ ~unchanged
                 => /\ c.err = "nil" /\ ~c.panicked
                    /\ c.proc \in {"AlphaNumericScrambler", "RandomUUID", "IBANScrambler"}
                    /\ c.proc = "AlphaNumericScrambler"
                       => /\ FullScope(c.cmap)
                          /\ ~(key \in DOMAIN AlphaNumericMap
                                  /\ c.input \in DOMAIN AlphaNumericMap[key])
                          /\ \A k \in DOMAIN AlphaNumericMap' \ {key} :
                                k \in DOMAIN AlphaNumericMap
                                   /\ AlphaNumericMap'[k] = AlphaNumericMap[k]
                          /\ \A raw \in DOMAIN AlphaNumericMap'[key] \ {c.input} :
                                /\ key \in DOMAIN AlphaNumericMap
                                /\ raw \in DOMAIN AlphaNumericMap[key]
                                /\ AlphaNumericMap'[key][raw] = AlphaNumericMap[key][raw]
                          /\ UUIDMap' = UUIDMap /\ IBANMap' = IBANMap
                    /\ c.proc = "RandomUUID"
                       => /\ uuidParse(c.input).ok
                          /\ uuidParse(c.input).id \notin DOMAIN UUIDMap
                          /\ DOMAIN UUIDMap' = DOMAIN UUIDMap \cup {uuidParse(c.input).id}
                          /\ \A id \in DOMAIN UUIDMap : UUIDMap'[id] = UUIDMap[id]
                          /\ AlphaNumericMap' = AlphaNumericMap /\ IBANMap' = IBANMap
                    /\ c.proc = "IBANScrambler"
                       => /\ c.input \notin DOMAIN IBANMap
                          /\ DOMAIN IBANMap' = DOMAIN IBANMap \cup {c.input}
                          /\ \A raw \in DOMAIN IBANMap : IBANMap'[raw] = IBANMap[raw]
                          /\ AlphaNumericMap' = AlphaNumericMap /\ UUIDMap' = UUIDMap
              /\ (c.proc = "AlphaNumericScrambler" /\ ~FullScope(c.cmap))
                 => ClassPreserving(c.input, c.out)]_vars

\* C13 witness: a RandomUUID call on the parseable input has returned the
\* error of uuid.NewRandom; the UUID map is still empty, and the
\* alphanumeric and IBAN maps hold the entries of the two calls before it.
C13_Witness ==
    /\ last.proc = "RandomUUID" /\ uuidParse(last.input).ok
    /\ last.err = "rand" /\ last.out = <<>>
    /\ UUIDMap = EmptyMap
    /\ AlphaNumericMap # EmptyMap /\ IBANMap # EmptyMap

\* what an ISO date string denotes
IsoYear(d) == digitsValue(SubSeq(d, 1, 4))
IsoMonth(d) == digitsValue(SubSeq(d, 6, 7))
IsoDay(d) == digitsValue(SubSeq(d, 9, 10))

\* d is YYYY-MM-DD
IsIsoShape(d) ==
    /\ Len(d) = 10
    /\ d[5] = 45 /\ d[8] = 45
    /\ \A i \in {1, 2, 3, 4, 6, 7, 9, 10} : IsDigit(d[i])

LeapYear(y) == (y % 4 = 0 /\ y % 100 # 0) \/ y % 400 = 0

\* day d of month m exists in year y
RealDate(y, m, d) ==
    /\ m \in 1..12
    /\ d >= 1
    /\ d <= (IF m \in {1, 3, 5, 7, 8, 10, 12} THEN 31
             ELSE IF m \in {4, 6, 9, 11} THEN 30
             ELSE IF LeapYear(y) THEN 29 ELSE 28)

\* the call was made on three components, the first of them a year in 1..9999
DatedInput(c) ==
    /\ c.proc = "RandomDate"
    /\ Len(Split(c.input, 45)) = 3
    /\ Atoi(Split(c.input, 45)[1]).ok
    /\ Atoi(Split(c.input, 45)[1]).n \in 1..9999

\* C10: date validity with the year preserved.  A RandomDate call on three
\* components whose first is a year y in 1..9999 returns no error and a
\* YYYY-MM-DD string of a real calendar date of year y; so February 29 only
\* in a leap year.
C10_ValidDateSameYear ==
    DatedInput(last)
    => /\ last.err = "nil" /\ ~last.panicked
       /\ IsIsoShape(last.out)
       /\ IsoYear(last.out) = Atoi(Split(last.input, 45)[1]).n
       /\ RealDate(IsoYear(last.out), IsoMonth(last.out), IsoDay(last.out))
       /\ (IsoMonth(last.out) = 2 /\ IsoDay(last.out) = 29) => LeapYear(IsoYear(last.out))

\* C10 witness: 2020-08-28 was randomized to 2020-02-29.
C10_Witness ==
    /\ DatedInput(last)
    /\ last.out = <<50, 48, 50, 48, 45, 48, 50, 45, 50, 57>>

\* the number of '-' bytes of s
Dashes(s) == Cardinality({i \in 1..Len(s) : s[i] = 45})

\* the text of s before its first '-'
YearText(s) ==
    SubSeq(s, 1, (CHOOSE i \in 1..Len(s) :
                      s[i] = 45 /\ \A j \in 1..(i - 1) : s[j] # 45) - 1)

\* t, which holds no '-', is a decimal integer: digits, after an optional '+'
IsIntegerText(t) ==
    LET digits == IF t # <<>> /\ t[1] = 43 THEN Tail(t) ELSE t
    IN  digits # <<>> /\ \A i \in 1..Len(digits) : IsDigit(digits[i])

\* C11: malformed date rejection.  A RandomDate call on an input that does
\* not hold exactly two '-' (so not exactly three components) returns the
\* format error and the empty string; a call on three components whose first
\* is not an integer returns the year error, a different one, and the empty
\* string.  Neither call panics.
C11_MalformedDateRejected ==
    last.proc = "RandomDate"
    => /\ ~last.panicked
       /\ Dashes(last.input) # 2
             => last.err = "format" /\ last.out = <<>>
       /\ (Dashes(last.input) = 2 /\ ~IsIntegerText(YearText(last.input)))
             => last.err = "year" /\ last.out = <<>>

\* C11 witness: RandomDate was called on "x-08-28" and returned the year
\* error with the empty string.
C11_Witness ==
    /\ last.proc = "RandomDate"
    /\ last.input = <<120, 45, 48, 56, 45, 50, 56>>
    /\ last.err = "year" /\ last.out = <<>>

\* the number of days of month m in year y
DaysIn(y, m) ==
    IF m \in {1, 3, 5, 7, 8, 10, 12} THEN 31
    ELSE IF m \in {4, 6, 9, 11} THEN 30
    ELSE IF LeapYear(y) THEN 29 ELSE 28

\* C12 as stated: day range of the date randomizer.  For the year y of a
\* RandomDate call that returned a date and every month m the randomizer can
\* draw, the bound of the day draw is the number of days of month m in year
\* y, every day it can draw gives a date in month m, and every calendar date
\* of year y, the last day of each month included, is one of the strings the
\* randomizer can return.
C12_DayRange ==
    (DatedInput(last) /\ last.err = "nil")
    => LET y == Atoi(Split(last.input, 45)[1]).n
       IN  /\ \A m \in 1..12 : monthMaxDay(y, m) = DaysIn(y, m)
           /\ \A m \in 1..12 :
                 \A d \in 1..monthMaxDay(y, m) : date(y, m, d).month = m
           /\ \A m \in 1..12 :
                 \A d \in 1..DaysIn(y, m) :
                    \E o \in randomizeDate(y, TRUE) :
                       IsoMonth(o) = m /\ IsoDay(o) = d

-----------------------------------------------------------------------------
(* Property of the parallel driver.                                        *)

\* C4 as stated: no duplicate-insert race.  Goroutines that have returned
\* from the same consistency-preserving processor called with the same key
\* (for AlphaNumericScrambler the same full parent scope and raw value)
\* without an error returned the same output.
C4_NoDuplicateInsert ==
    \A g \in Goroutines, h \in Goroutines :
        (/\ gs[g].pc = "done" /\ gs[h].pc = "done"
         /\ gs[g].proc = gs[h].proc /\ gs[g].input = gs[h].input
         /\ gs[g].cmap = gs[h].cmap
         /\ gs[g].proc = "AlphaNumericScrambler" => FullScope(gs[g].cmap)
         /\ gs[g].err = "nil" /\ gs[h].err = "nil")
        => gs[g].out = gs[h].out

====
